---- MODULE Spec2Model ----
(***************************************************************************)
(* Conversation context management of WeAssistant: the usage ledger        *)
(* reducer (app/core/state.py), the safe-cutoff locator and the compactor  *)
(* (app/core/summary.py), the agent hooks (app/core/agent.py) and the      *)
(* query result cache of the retrieval service (app/services/rag.py).      *)
(***************************************************************************)
EXTENDS Integers, Sequences, FiniteSets, TLC

VARIABLES
    left, right, merged, redelivered, uphase,   \* add_usage called as a function
    now,                                        \* int(datetime.now().timestamp())
    messages,                                   \* state["messages"]
    cutoff_index, cphase,                       \* _find_safe_cutoff called as a function
    token_usage,                                \* state["token_usage"], the stored ledger
    summary_info,                               \* state["summary_info"]
    llm_input_messages,                         \* state["llm_input_messages"]
    pc,                                         \* the node of the agent graph that runs next
    next_id, next_call_id,                      \* fresh message ids and tool-call ids
    turns, model_calls,                         \* user turns and model calls so far
    spent,                                      \* usage of every backend call made so far
    summary_calls,                              \* model.invoke calls made by _create_summary
    query_cache,                                \* RAGService._query_cache, in insertion order
    cache_now,                                  \* datetime.now() as RAGService reads it
    last_search,                                \* the latest search_documents call and its outcome
    inflight, started,                          \* search_documents calls suspended at an await
    chat_request, chat_pc,                      \* the request process_chat is serving, and where
    moderation_task, intent_task,               \* the two coroutines given to asyncio.gather
    moderation_cache,                           \* ModeratorService._moderation_cache
    classification_cache,                       \* IntentClassifierService._classification_cache
    chat_result, chats_done                     \* what process_chat returned or raised

usage_vars == <<left, right, merged, redelivered, uphase>>

cutoff_vars == <<cutoff_index, cphase>>

state_vars == <<token_usage, summary_info, llm_input_messages>>

agent_vars == <<state_vars, pc, next_id, next_call_id, turns, model_calls, spent,
               summary_calls>>

cache_vars == <<query_cache, cache_now, last_search>>

conc_vars == <<inflight, started>>

chat_vars == <<chat_request, chat_pc, moderation_task, intent_task, moderation_cache,
              classification_cache, chat_result, chats_done>>

vars == <<usage_vars, now, messages, cutoff_vars, agent_vars, cache_vars, conc_vars,
          chat_vars>>

(***************************************************************************)
(* Bounds of the model.                                                    *)
(***************************************************************************)
MaxClock == 2
MaxLen == 8
MaxAgentMessages == 3
MaxTurns == 2
MaxModelCalls == 3
MaxParallelCalls == 6
MaxCacheClock == 2
MaxSearches == 3

(***************************************************************************)
(* Python dicts are functions from keys to values.  None and the empty     *)
(* dict are both falsy and add_usage only ever tests truthiness, so the    *)
(* model has one absent value, the empty mapping.                          *)
(***************************************************************************)
None == [k \in {} |-> 0]

Truthy(d) == DOMAIN d # {}

Get(d, k, default) == IF k \in DOMAIN d THEN d[k] ELSE default

SetKey(d, k, v) == [j \in DOMAIN d \cup {k} |-> IF j = k THEN v ELSE d[j]]

DropKey(d, k) == [j \in DOMAIN d \ {k} |-> d[j]]

\* UsageMetadata keys whose values are nested dicts of ints.
NestedKeys == {"input_token_details"}

\* Keys of the nested per-kind detail maps.
DetailKeys == {"cache_read", "audio"}

\* left.get("timestamp", -1)
NoTimestamp == 0 - 1

(***************************************************************************)
(* langchain_core.utils.usage._dict_int_op(left, right, operator.add):     *)
(* over the union of the keys, ints are added with a missing side counted  *)
(* as 0 and nested dicts are combined the same way, key by key.            *)
(***************************************************************************)
\* Mutant: a key missing on one side drops the field instead of counting as 0.
_dict_int_op_CommonKeys(l, r) ==
    [k \in DOMAIN l \cap DOMAIN r |->
        IF k \in NestedKeys
        THEN [j \in DOMAIN l[k] \cap DOMAIN r[k] |-> l[k][j] + r[k][j]]
        ELSE l[k] + r[k]]

_dict_int_op(l, r) ==
    [k \in DOMAIN l \cup DOMAIN r |->
        IF k \in NestedKeys
        THEN LET ld == Get(l, k, None)
                 rd == Get(r, k, None)
             IN  [j \in DOMAIN ld \cup DOMAIN rd |-> Get(ld, j, 0) + Get(rd, j, 0)]
        ELSE Get(l, k, 0) + Get(r, k, 0)]

ZeroUsage(t) ==
    [input_tokens |-> 0, output_tokens |-> 0, total_tokens |-> 0, timestamp |-> t]

\* Mutant: the duplicate-snapshot branch is missing, every pair is summed.
add_usage_AlwaysSum(l, r, t) ==
    IF ~(Truthy(l) \/ Truthy(r)) THEN ZeroUsage(t)
    ELSE IF ~(Truthy(l) /\ Truthy(r)) THEN (IF Truthy(l) THEN l ELSE r)
    ELSE SetKey(_dict_int_op(l, r), "timestamp", t)

\* Mutant: the timestamp comparison is reversed, the earlier snapshot wins.
add_usage_Earlier(l, r, t) ==
    IF ~(Truthy(l) \/ Truthy(r)) THEN ZeroUsage(t)
    ELSE IF ~(Truthy(l) /\ Truthy(r)) THEN (IF Truthy(l) THEN l ELSE r)
    ELSE LET left_ts  == Get(l, "timestamp", NoTimestamp)
             right_ts == Get(r, "timestamp", NoTimestamp)
         IN  IF left_ts # NoTimestamp /\ right_ts # NoTimestamp
             THEN (IF left_ts <= right_ts THEN l ELSE r)
             ELSE SetKey(_dict_int_op(l, r), "timestamp", t)

\* Mutant: the merged record is not re-stamped, its timestamp is the sum.
add_usage_NoRestamp(l, r, t) ==
    IF ~(Truthy(l) \/ Truthy(r)) THEN ZeroUsage(t)
    ELSE IF ~(Truthy(l) /\ Truthy(r)) THEN (IF Truthy(l) THEN l ELSE r)
    ELSE LET left_ts  == Get(l, "timestamp", NoTimestamp)
             right_ts == Get(r, "timestamp", NoTimestamp)
         IN  IF left_ts # NoTimestamp /\ right_ts # NoTimestamp
             THEN (IF left_ts >= right_ts THEN l ELSE r)
             ELSE _dict_int_op(l, r)

\* Mutant: on equal timestamps the incoming record wins.
add_usage_TieTakesRight(l, r, t) ==
    IF ~(Truthy(l) \/ Truthy(r)) THEN ZeroUsage(t)
    ELSE IF ~(Truthy(l) /\ Truthy(r)) THEN (IF Truthy(l) THEN l ELSE r)
    ELSE LET left_ts  == Get(l, "timestamp", NoTimestamp)
             right_ts == Get(r, "timestamp", NoTimestamp)
         IN  IF left_ts # NoTimestamp /\ right_ts # NoTimestamp
             THEN (IF left_ts > right_ts THEN l ELSE r)
             ELSE SetKey(_dict_int_op(l, r), "timestamp", t)

add_usage(l, r, t) ==
    IF ~(Truthy(l) \/ Truthy(r)) THEN ZeroUsage(t)
    ELSE IF ~(Truthy(l) /\ Truthy(r)) THEN (IF Truthy(l) THEN l ELSE r)
    ELSE LET left_ts  == Get(l, "timestamp", NoTimestamp)
             right_ts == Get(r, "timestamp", NoTimestamp)
         IN  IF left_ts # NoTimestamp /\ right_ts # NoTimestamp
             THEN (IF left_ts >= right_ts THEN l ELSE r)
             ELSE SetKey(_dict_int_op(l, r), "timestamp", t)

(***************************************************************************)
(* Messages.  A message carries its class (HumanMessage, AIMessage,        *)
(* ToolMessage), the ids of its tool calls (AIMessage), the call id it     *)
(* answers (ToolMessage, 0 otherwise), the usage_metadata the provider     *)
(* attached, the size of its content in tokens, what its content is (plain *)
(* text, or one of the summaries _build_new_messages wraps) and its id (0  *)
(* for a message that has none yet).                                       *)
(***************************************************************************)
HumanMessage(tok) ==
    [type |-> "human", tool_calls |-> {}, tool_call_id |-> 0,
     usage_metadata |-> None, tokens |-> tok, content |-> "text", id |-> 0]

AIMessage(calls, usage, tok) ==
    [type |-> "ai", tool_calls |-> calls, tool_call_id |-> 0,
     usage_metadata |-> usage, tokens |-> tok, content |-> "text", id |-> 0]

ToolMessage(id, tok) ==
    [type |-> "tool", tool_calls |-> {}, tool_call_id |-> id,
     usage_metadata |-> None, tokens |-> tok, content |-> "text", id |-> 0]

\* The code indexes from 0.
At(msgs, i) == msgs[i + 1]

Min(a, b) == IF a <= b THEN a ELSE b

Max(a, b) == IF a >= b THEN a ELSE b

RECURSIVE SetMax(_)
SetMax(S) ==
    LET x == CHOOSE y \in S : TRUE
    IN  IF S = {x} THEN x ELSE Max(x, SetMax(S \ {x}))

(***************************************************************************)
(* The safe-cutoff locator (app/core/summary.py).                          *)
(***************************************************************************)
\* SETTINGS.summary_max_message_count, a deployment setting.
messages_to_keep == 2

_SEARCH_RANGE_FOR_TOOL_PAIRS == 5

_has_tool_calls(message) == message.type = "ai" /\ message.tool_calls # {}

_extract_tool_call_ids(ai_message) == ai_message.tool_calls

_cutoff_separates_tool_pair(msgs, ai_message_index, cutoff, tool_call_ids) ==
    \E j \in (ai_message_index + 1)..(Len(msgs) - 1) :
        /\ At(msgs, j).type = "tool"
        /\ At(msgs, j).tool_call_id \in tool_call_ids
        /\ (ai_message_index < cutoff) # (j < cutoff)

\* Mutant: any assistant message with tool calls in the window makes the
\* candidate unsafe, separated from its results or not.
_is_safe_cutoff_point_AnyToolCall(msgs, cutoff) ==
    IF cutoff >= Len(msgs) THEN TRUE
    ELSE LET search_start == Max(0, cutoff - _SEARCH_RANGE_FOR_TOOL_PAIRS)
             search_end   == Min(Len(msgs), cutoff + _SEARCH_RANGE_FOR_TOOL_PAIRS)
         IN  \A i \in search_start..(search_end - 1) : ~_has_tool_calls(At(msgs, i))

\* Mutant: the window before the cutoff is one index short.
_is_safe_cutoff_point_ShortWindow(msgs, cutoff) ==
    IF cutoff >= Len(msgs) THEN TRUE
    ELSE LET search_start == Max(0, cutoff - _SEARCH_RANGE_FOR_TOOL_PAIRS + 1)
             search_end   == Min(Len(msgs), cutoff + _SEARCH_RANGE_FOR_TOOL_PAIRS)
         IN  \A i \in search_start..(search_end - 1) :
                _has_tool_calls(At(msgs, i)) =>
                    ~_cutoff_separates_tool_pair(
                        msgs, i, cutoff, _extract_tool_call_ids(At(msgs, i)))

_is_safe_cutoff_point(msgs, cutoff) ==
    IF cutoff >= Len(msgs) THEN TRUE
    ELSE LET search_start == Max(0, cutoff - _SEARCH_RANGE_FOR_TOOL_PAIRS)
             search_end   == Min(Len(msgs), cutoff + _SEARCH_RANGE_FOR_TOOL_PAIRS)
         IN  \A i \in search_start..(search_end - 1) :
                _has_tool_calls(At(msgs, i)) =>
                    ~_cutoff_separates_tool_pair(
                        msgs, i, cutoff, _extract_tool_call_ids(At(msgs, i)))

\* for i in range(target_cutoff, -1, -1): the first safe index, else 0.
RECURSIVE SearchDown(_, _)
SearchDown(msgs, i) ==
    IF i < 0 THEN 0
    ELSE IF _is_safe_cutoff_point(msgs, i) THEN i
    ELSE SearchDown(msgs, i - 1)

\* Mutant: the floor is hard-coded to one message instead of messages_to_keep.
_find_safe_cutoff_KeepOne(msgs) ==
    IF Len(msgs) <= 1 THEN 0
    ELSE SearchDown(msgs, Len(msgs) - 1)

\* Mutant: the search starts one index below the target.
_find_safe_cutoff_BelowTarget(msgs) ==
    IF Len(msgs) <= messages_to_keep THEN 0
    ELSE SearchDown(msgs, Len(msgs) - messages_to_keep - 1)

_find_safe_cutoff(msgs) ==
    IF Len(msgs) <= messages_to_keep THEN 0
    ELSE SearchDown(msgs, Len(msgs) - messages_to_keep)


(***************************************************************************)
(* The compactor (app/core/summary.py).                                    *)
(***************************************************************************)
max_tokens_before_summary == 3000

\* count_tokens_approximately: the sum of the messages' token sizes.
RECURSIVE count_tokens_approximately(_)
count_tokens_approximately(msgs) ==
    IF msgs = <<>> THEN 0
    ELSE Head(msgs).tokens + count_tokens_approximately(Tail(msgs))

\* RemoveMessage(id=REMOVE_ALL_MESSAGES)
RemoveAll ==
    [type |-> "remove", tool_calls |-> {}, tool_call_id |-> 0,
     usage_metadata |-> None, tokens |-> 0, content |-> "remove_all", id |-> 0 - 1]

\* HumanMessage("Here is a summary of the conversation to date: ..."): the
\* summary text is kept as what produced it.
_build_new_messages(summary) ==
    <<[type |-> "human", tool_calls |-> {}, tool_call_id |-> 0,
       usage_metadata |-> None, tokens |-> summary.tokens, content |-> summary.text,
       id |-> 0]>>

\* Mutant: the preserved part starts one message after the cutoff.
_partition_messages_SkipsBoundary(conversation_messages, cutoff) ==
    <<SubSeq(conversation_messages, 1, cutoff),
      SubSeq(conversation_messages, cutoff + 2, Len(conversation_messages))>>

_partition_messages(conversation_messages, cutoff) ==
    <<SubSeq(conversation_messages, 1, cutoff),
      SubSeq(conversation_messages, cutoff + 1, Len(conversation_messages))>>

(***************************************************************************)
(* _create_summary.  backend is what the trimming and the model call do    *)
(* with this request: kind "ok" (the model answers, with usage_metadata    *)
(* usage), "error" (model.invoke raises) or "too_long" (the trimmed        *)
(* window is empty, the model is not called), and the size in tokens of    *)
(* the summary that results.  The result is the summary, the usage to      *)
(* charge and whether the model was called.                                *)
(***************************************************************************)
\* Mutant: no early return on an empty input, the model is asked anyway.
_create_summary_AsksOnEmpty(backend, messages_to_summarize) ==
    IF backend.kind = "too_long"
    THEN [summary |-> [text |-> "summary_too_long", tokens |-> backend.tokens],
          usage |-> None, invoked |-> FALSE]
    ELSE IF backend.kind = "ok"
    THEN [summary |-> [text |-> "summary_text", tokens |-> backend.tokens],
          usage |-> backend.usage, invoked |-> TRUE]
    ELSE [summary |-> [text |-> "summary_error", tokens |-> backend.tokens],
          usage |-> None, invoked |-> TRUE]

_create_summary(backend, messages_to_summarize) ==
    IF messages_to_summarize = <<>>
    THEN [summary |-> [text |-> "summary_no_history", tokens |-> backend.tokens],
          usage |-> None, invoked |-> FALSE]
    ELSE IF backend.kind = "too_long"
    THEN [summary |-> [text |-> "summary_too_long", tokens |-> backend.tokens],
          usage |-> None, invoked |-> FALSE]
    ELSE IF backend.kind = "ok"
    THEN [summary |-> [text |-> "summary_text", tokens |-> backend.tokens],
          usage |-> backend.usage, invoked |-> TRUE]
    ELSE [summary |-> [text |-> "summary_error", tokens |-> backend.tokens],
          usage |-> None, invoked |-> TRUE]

(***************************************************************************)
(* summarize_messages mutates the state dict it is given: st is the dict   *)
(* before, the result is the dict after.                                   *)
(***************************************************************************)
\* Mutant: the token threshold is not consulted.
summarize_messages_NoThreshold(st, backend, t) ==
    LET cutoff == _find_safe_cutoff(st.messages)
    IN  IF cutoff <= 0 THEN st
        ELSE LET parts   == _partition_messages(st.messages, cutoff)
                 created == _create_summary(backend, parts[1])
             IN  [st EXCEPT
                    !.messages = <<RemoveAll>> \o _build_new_messages(created.summary)
                                     \o parts[2],
                    !.token_usage = add_usage(st.token_usage, created.usage, t)]

\* Mutant: the new summary is put after the preserved messages.
summarize_messages_SummaryLast(st, backend, t) ==
    IF count_tokens_approximately(st.messages) < max_tokens_before_summary THEN st
    ELSE LET cutoff == _find_safe_cutoff(st.messages)
         IN  IF cutoff <= 0 THEN st
             ELSE LET parts   == _partition_messages(st.messages, cutoff)
                      created == _create_summary(backend, parts[1])
                  IN  [st EXCEPT
                         !.messages = <<RemoveAll>> \o parts[2]
                                          \o _build_new_messages(created.summary),
                         !.token_usage = add_usage(st.token_usage, created.usage, t)]

\* Mutant: the usage of the summarization call is not added to the ledger.
summarize_messages_DropsUsage(st, backend, t) ==
    IF count_tokens_approximately(st.messages) < max_tokens_before_summary THEN st
    ELSE LET cutoff == _find_safe_cutoff(st.messages)
         IN  IF cutoff <= 0 THEN st
             ELSE LET parts   == _partition_messages(st.messages, cutoff)
                      created == _create_summary(backend, parts[1])
                  IN  [st EXCEPT
                         !.messages = <<RemoveAll>> \o _build_new_messages(created.summary)
                                          \o parts[2]]

summarize_messages(st, backend, t) ==
    IF count_tokens_approximately(st.messages) < max_tokens_before_summary THEN st
    ELSE LET cutoff == _find_safe_cutoff(st.messages)
         IN  IF cutoff <= 0 THEN st
             ELSE LET parts   == _partition_messages(st.messages, cutoff)
                      created == _create_summary(backend, parts[1])
                  IN  [st EXCEPT
                         !.messages = <<RemoveAll>> \o _build_new_messages(created.summary)
                                          \o parts[2],
                         !.token_usage = add_usage(st.token_usage, created.usage, t)]

\* The number of model.invoke calls summarize_messages makes on st: one when
\* it goes on to _create_summary and that reaches the model, else none.
summary_invocations(st, backend) ==
    LET after == summarize_messages(st, backend, 0)
        parts == _partition_messages(st.messages, _find_safe_cutoff(st.messages))
    IN  IF after.messages # st.messages /\ _create_summary(backend, parts[1]).invoked
        THEN 1 ELSE 0

(***************************************************************************)
(* The state schema's reducers (app/core/state.py, HistoryMessageState).   *)
(***************************************************************************)
append_summary(l, r) ==
    IF ~(Truthy(l) \/ Truthy(r)) THEN [cutoff_point |-> 0]
    ELSE IF ~(Truthy(l) /\ Truthy(r)) THEN (IF Truthy(l) THEN l ELSE r)
    ELSE IF l["cutoff_point"] >= r["cutoff_point"] THEN l ELSE r

\* Messages without an id get a fresh one, counting up from base.
AssignIds(msgs, base) ==
    [i \in 1..Len(msgs) |->
        IF msgs[i].id # 0 THEN msgs[i]
        ELSE [msgs[i] EXCEPT !.id =
                base + Cardinality({j \in 1..(i - 1) : msgs[j].id = 0})]]

NumWithoutId(msgs) == Cardinality({i \in 1..Len(msgs) : msgs[i].id = 0})

\* A message whose id is already in the log replaces that entry in place,
\* any other message is appended.
RECURSIVE MergeById(_, _)
MergeById(l, r) ==
    IF r = <<>> THEN l
    ELSE LET m   == Head(r)
             hit == {i \in 1..Len(l) : l[i].id = m.id}
         IN  IF hit = {}
             THEN MergeById(Append(l, m), Tail(r))
             ELSE MergeById([l EXCEPT ![CHOOSE i \in hit : TRUE] = m], Tail(r))

\* langgraph's add_messages, the reducer of "messages": an update holding
\* RemoveMessage(REMOVE_ALL_MESSAGES) replaces the log with what follows it.
add_messages(l, r, base) ==
    LET rr      == AssignIds(r, base)
        removes == {i \in 1..Len(rr) : rr[i].type = "remove"}
    IN  IF removes # {}
        THEN SubSeq(rr, SetMax(removes) + 1, Len(rr))
        ELSE MergeById(l, rr)

(***************************************************************************)
(* The hooks of the agent graph (app/core/agent.py): st is the state dict  *)
(* the hook is given, the result is the dict it returns.                   *)
(***************************************************************************)
\* Mutant: the cutoff of the mark is ignored, the whole log follows the summary.
pre_model_hook_IgnoresCutoff(st) ==
    IF Truthy(st.summary_info) /\ "summary" \in DOMAIN st.summary_info
    THEN [st EXCEPT !.llm_input_messages = <<st.summary_info["summary"]>> \o st.messages]
    ELSE [st EXCEPT !.llm_input_messages = st.messages, !.summary_info = None]

pre_model_hook(st) ==
    IF Truthy(st.summary_info) /\ "summary" \in DOMAIN st.summary_info
    THEN [st EXCEPT !.llm_input_messages =
            <<st.summary_info["summary"]>>
              \o SubSeq(st.messages, st.summary_info["cutoff_point"] + 1, Len(st.messages))]
    ELSE [st EXCEPT !.llm_input_messages = st.messages, !.summary_info = None]

post_model_hook(st, backend, t) ==
    LET s1   == summarize_messages(st, backend, t)
        last == s1.messages[Len(s1.messages)]
    IN  IF last.type \in {"ai", "tool"}
        THEN [s1 EXCEPT !.token_usage = add_usage(s1.token_usage, last.usage_metadata, t)]
        ELSE s1

(***************************************************************************)
(* Inputs of the usage ledger.                                             *)
(***************************************************************************)
InputVals == {3, 10}
OutputVals == {2, 5}
DetailVals == {1}

Counts(i, o) == [input_tokens |-> i, output_tokens |-> o, total_tokens |-> i + o]

DetailMaps == UNION {[D -> DetailVals] : D \in SUBSET DetailKeys}

Unstamped ==
    {Counts(i, o) : i \in InputVals, o \in OutputVals}
    \cup {SetKey(Counts(i, o), "input_token_details", d) :
            i \in InputVals, o \in OutputVals, d \in DetailMaps}

Stamped == {SetKey(u, "timestamp", t) : u \in Unstamped, t \in 0..MaxClock}

WellFormed == Unstamped \cup Stamped

\* Records missing the required input_tokens (and total_tokens) fields.
Malformed ==
    {[output_tokens |-> o] : o \in OutputVals}
    \cup {[output_tokens |-> o, timestamp |-> t] : o \in OutputVals, t \in 0..MaxClock}

UsageInputs == {None} \cup WellFormed \cup Malformed

StampOf(u) == Get(u, "timestamp", NoTimestamp)

(***************************************************************************)
(* The query result cache of RAGService (app/services/rag.py).             *)
(*                                                                         *)
(* The clock counts in units of five minutes, so the time to live of ten   *)
(* minutes is 2; the cache's size limit, 100 in _cache_result, is scaled   *)
(* down to MaxCacheEntries.  Similarities and thresholds are in tenths.    *)
(***************************************************************************)
_cache_ttl == 2

MaxCacheEntries == 1

Queries == {"refund policy", "payout rules", "hello"}

\* len(set(query.lower().split()))
Keywords(query) == IF query = "hello" THEN 1 ELSE 2

\* user_id as the callers pass it; 0 stands for None (and for a falsy id).
UserIds == {0, 1}

Limits == {1, 2}

\* min_score as the callers pass it: the default of search_documents, 0.5.
MinScores == {5}

\* str(user_id)
Str(user_id) == IF user_id = 1 THEN "1" ELSE "2"

\* What the vector store holds for each query, nearest first: the document,
\* its metadata.user_id and its distance.
StoreHits(query) ==
    IF query = "refund policy"
    THEN <<[id |-> 1, user_id |-> "1", score |-> 1],
           [id |-> 2, user_id |-> "2", score |-> 4]>>
    ELSE IF query = "payout rules"
    THEN <<[id |-> 3, user_id |-> "2", score |-> 4],
           [id |-> 4, user_id |-> "1", score |-> 15]>>
    ELSE <<[id |-> 5, user_id |-> "1", score |-> 1]>>

Take(seq, n) == SubSeq(seq, 1, Min(n, Len(seq)))

\* vector_store.asimilarity_search_with_score(query, k, filter)
asimilarity_search_with_score(query, k, metadata_filter) ==
    LET matches(hit) == Truthy(metadata_filter) => hit.user_id = metadata_filter["user_id"]
    IN  Take(SelectSeq(StoreHits(query), matches), k)

\* Mutant: the filter is left out of what is hashed.
_get_cache_key_IgnoresFilter(query, metadata_filter) ==
    [query |-> query, filter |-> None]

\* The hash of the JSON text of query and filter: the model keeps the text
\* that is hashed, None and {} giving the same one.
_get_cache_key(query, metadata_filter) ==
    [query |-> query, filter |-> IF Truthy(metadata_filter) THEN metadata_filter ELSE None]

CacheIndex(cache, cache_key) == {i \in 1..Len(cache) : cache[i].key = cache_key}

RemoveAt(seq, i) == SubSeq(seq, 1, i - 1) \o SubSeq(seq, i + 1, Len(seq))

\* Mutant: an entry is still served at the age of the time to live.
_get_cached_result_ServesAtTtl(cache, cache_key, t) ==
    LET hit == CacheIndex(cache, cache_key)
    IN  IF hit = {} THEN [found |-> FALSE, result |-> <<>>, cache |-> cache]
        ELSE LET i == CHOOSE j \in hit : TRUE
             IN  IF t - cache[i].timestamp <= _cache_ttl
                 THEN [found |-> TRUE, result |-> cache[i].result, cache |-> cache]
                 ELSE [found |-> FALSE, result |-> <<>>, cache |-> RemoveAt(cache, i)]

\* What _get_cached_result returns (found is FALSE for None) and the cache
\* it leaves.
_get_cached_result(cache, cache_key, t) ==
    LET hit == CacheIndex(cache, cache_key)
    IN  IF hit = {} THEN [found |-> FALSE, result |-> <<>>, cache |-> cache]
        ELSE LET i == CHOOSE j \in hit : TRUE
             IN  IF t - cache[i].timestamp < _cache_ttl
                 THEN [found |-> TRUE, result |-> cache[i].result, cache |-> cache]
                 ELSE [found |-> FALSE, result |-> <<>>, cache |-> RemoveAt(cache, i)]

\* min(keys, key=timestamp): the first entry, in the dict's order, with the
\* smallest timestamp.
OldestIndex(cache) ==
    CHOOSE i \in 1..Len(cache) :
        /\ \A j \in 1..Len(cache) : cache[i].timestamp <= cache[j].timestamp
        /\ \A j \in 1..(i - 1) : cache[j].timestamp > cache[i].timestamp

\* Mutant: the entry stored last is the one evicted.
_cache_result_EvictsNewest(cache, cache_key, result, t) ==
    LET newest == CHOOSE i \in 1..Len(cache) :
                      \A j \in 1..Len(cache) : cache[i].timestamp >= cache[j].timestamp
        kept   == IF Len(cache) > MaxCacheEntries THEN RemoveAt(cache, newest) ELSE cache
        hit    == CacheIndex(kept, cache_key)
        entry  == [key |-> cache_key, result |-> result, timestamp |-> t]
    IN  IF hit = {} THEN Append(kept, entry)
        ELSE [kept EXCEPT ![CHOOSE j \in hit : TRUE] = entry]

_cache_result(cache, cache_key, result, t) ==
    LET kept  == IF Len(cache) > MaxCacheEntries
                 THEN RemoveAt(cache, OldestIndex(cache)) ELSE cache
        hit   == CacheIndex(kept, cache_key)
        entry == [key |-> cache_key, result |-> result, timestamp |-> t]
    IN  IF hit = {} THEN Append(kept, entry)
        ELSE [kept EXCEPT ![CHOOSE j \in hit : TRUE] = entry]

\* similarity = 1 - score if score <= 1 else 1 / (1 + score)
Similarity(score) == IF score <= 10 THEN 10 - score ELSE 100 \div (10 + score)

\* get_relevant_documents: store_up is whether the vector store answers.
get_relevant_documents(query, k, metadata_filter, relevance_threshold, store_up) ==
    IF Keywords(query) < 2
    THEN [raised |-> FALSE, documents |-> <<>>, searched |-> FALSE]
    ELSE IF ~store_up
    THEN [raised |-> TRUE, documents |-> <<>>, searched |-> TRUE]
    ELSE LET search_k == Min(k * 2, 15)
             results  == asimilarity_search_with_score(query, search_k, metadata_filter)
             scored   == [i \in 1..Len(results) |->
                            [id |-> results[i].id,
                             relevance_score |-> Similarity(results[i].score)]]
             relevant(doc) == doc.relevance_score >= relevance_threshold
         IN  [raised |-> FALSE, documents |-> Take(SelectSeq(scored, relevant), k),
              searched |-> TRUE]

\* The list of dicts search_documents returns for documents.
FormatDocuments(documents) ==
    [i \in 1..Len(documents) |->
        [content |-> documents[i].id, score |-> documents[i].relevance_score]]

\* metadata_filter = {"user_id": str(user_id)} if user_id else None
MetadataFilter(user_id) == IF user_id # 0 THEN [user_id |-> Str(user_id)] ELSE None

\* Mutant: a failed search is answered with an empty list, which is cached.
search_documents_CachesFailure(cache, query, user_id, limit, min_score, t, store_up) ==
    LET metadata_filter == MetadataFilter(user_id)
        cache_key       == _get_cache_key(query, metadata_filter)
        cached          == _get_cached_result(cache, cache_key, t)
    IN  IF cached.found /\ cached.result # <<>>
        THEN [raised |-> FALSE, value |-> FormatDocuments(Take(cached.result, limit)),
              cache |-> cached.cache, computed |-> FALSE, searched |-> FALSE,
              evicted |-> FALSE]
        ELSE LET got == get_relevant_documents(query, limit, metadata_filter,
                                               min_score, store_up)
             IN  [raised |-> got.raised, value |-> FormatDocuments(got.documents),
                  cache |-> _cache_result(cached.cache, cache_key, got.documents, t),
                  computed |-> TRUE, searched |-> got.searched,
                  evicted |-> Len(cached.cache) > MaxCacheEntries]

\* search_documents on the cache as it is at time t: what it returns or
\* that it raised, the cache it leaves, whether it called
\* get_relevant_documents and the vector store, and whether _cache_result
\* found the cache over its size limit and evicted.
search_documents(cache, query, user_id, limit, min_score, t, store_up) ==
    LET metadata_filter == MetadataFilter(user_id)
        cache_key       == _get_cache_key(query, metadata_filter)
        cached          == _get_cached_result(cache, cache_key, t)
    IN  IF cached.found /\ cached.result # <<>>
        THEN [raised |-> FALSE, value |-> FormatDocuments(Take(cached.result, limit)),
              cache |-> cached.cache, computed |-> FALSE, searched |-> FALSE,
              evicted |-> FALSE]
        ELSE LET got == get_relevant_documents(query, limit, metadata_filter,
                                               min_score, store_up)
             IN  IF got.raised
                 THEN [raised |-> TRUE, value |-> <<>>, cache |-> cached.cache,
                       computed |-> TRUE, searched |-> got.searched,
                       evicted |-> FALSE]
                 ELSE [raised |-> FALSE, value |-> FormatDocuments(got.documents),
                       cache |-> _cache_result(cached.cache, cache_key,
                                               got.documents, t),
                       computed |-> TRUE, searched |-> got.searched,
                       evicted |-> Len(cached.cache) > MaxCacheEntries]

\* No search_documents call has been made yet.
NoSearch ==
    [calls |-> 0, query |-> "", user_id |-> 0, limit |-> 0, before |-> "absent",
     raised |-> FALSE, value |-> <<>>, computed |-> FALSE, searched |-> FALSE,
     evicted |-> FALSE]

\* The cache key of a search_documents call.
KeyOf(query, user_id) == _get_cache_key(query, MetadataFilter(user_id))

\* The entries of cache_key that are younger than the time to live at t.
FreshEntries(cache, cache_key, t) ==
    {i \in CacheIndex(cache, cache_key) : t - cache[i].timestamp < _cache_ttl}

\* What the cache holds for cache_key at t.
EntryState(cache, cache_key, t) ==
    IF CacheIndex(cache, cache_key) = {} THEN "absent"
    ELSE IF FreshEntries(cache, cache_key, t) # {} THEN "fresh"
    ELSE "expired"

CacheIdle == query_cache = <<>> /\ cache_now = 0 /\ last_search = NoSearch

\* The conversations that can be inside search_documents on the one
\* RAGService at the same time.
Callers == {1, 2}

\* A caller that is not inside search_documents.
NoCall ==
    [pc |-> "idle", query |-> "", user_id |-> 0, limit |-> 0, min_score |-> 0,
     before |-> "absent"]

ConcIdle == inflight = [c \in Callers |-> NoCall] /\ started = 0

(***************************************************************************)
(* The chat pipeline (app/services/orchestrator.py) and the two services   *)
(* it runs side by side (app/services/moderator.py, classifier.py).        *)
(***************************************************************************)
ChatMessages == {" ", "hello", "attack"}

\* content.strip()
Strip(content) == IF content = " " THEN "" ELSE content

\* A coroutine that has not run yet, with the value it has not returned yet.
NewModeration == [pc |-> "new", result |-> TRUE]

NewIntent == [pc |-> "new", result |-> [intent |-> "", confidence |-> 0]]

\* is_content_safe up to its first suspension: blank content and a cached
\* verdict are answered at once, otherwise the moderation API is awaited.
\* The cache is keyed by the md5 of the content, the model by the content.
is_content_safe(content, cache) ==
    IF Strip(content) = "" THEN [pc |-> "done", result |-> TRUE]
    ELSE IF content \in DOMAIN cache THEN [pc |-> "done", result |-> cache[content]]
    ELSE [pc |-> "awaiting", result |-> TRUE]

\* What the moderation API does with a request.
ModerationOutcomes == {"flagged", "clean", "error"}

\* is_safe = not response.results[0].flagged, and True when the call raises.
ModerationVerdict(outcome) == outcome # "flagged"

IntentTypes == {"TRIVIAL", "FAQ", "CONSULTANT", "OTHER"}

\* What the classification chain answers: an intent, an intent that is not
\* one of IntentType, or an exception.  Confidences are in hundredths.
ClassifierOutcomes == IntentTypes \cup {"INVALID", "error"}

IntentResult(outcome) ==
    IF outcome = "error" THEN [intent |-> "FAQ", confidence |-> 50]
    ELSE IF outcome = "INVALID" THEN [intent |-> "FAQ", confidence |-> 60]
    ELSE [intent |-> outcome, confidence |-> 90]

\* classify_intent up to its first suspension.
classify_intent(message, cache) ==
    IF Strip(message) = ""
    THEN [pc |-> "done", result |-> [intent |-> "TRIVIAL", confidence |-> 95]]
    ELSE IF Strip(message) \in DOMAIN cache
    THEN [pc |-> "done", result |-> cache[Strip(message)]]
    ELSE [pc |-> "awaiting", result |-> NewIntent.result]

RefusalMessage ==
    "I cannot process that request. Please ensure your message follows our community guidelines."

NoChatResult == [kind |-> "none", error |-> "", content |-> "", intent |-> ""]

NoRequest == [message |-> "", thread_found |-> TRUE]

\* A dict with no key.
EmptyDict == [k \in {} |-> TRUE]

ChatIdle ==
    /\ chat_request = NoRequest /\ chat_pc = "unused"
    /\ moderation_task = NewModeration /\ intent_task = NewIntent
    /\ moderation_cache = EmptyDict /\ classification_cache = EmptyDict
    /\ chat_result = NoChatResult /\ chats_done = 0

(***************************************************************************)
(* add_usage as a function: the reducer is applied to (left, right), the   *)
(* clock may advance, and the same right is delivered a second time.       *)
(***************************************************************************)
UsageIdle ==
    /\ left = None /\ right = None /\ merged = None /\ redelivered = None
    /\ uphase = "unused"

CutoffIdle == cutoff_index = 0 /\ cphase = "unused"

AgentIdle ==
    /\ token_usage = None /\ summary_info = None /\ llm_input_messages = <<>>
    /\ pc = "unused" /\ next_id = 1 /\ next_call_id = 1
    /\ turns = 0 /\ model_calls = 0
    /\ spent = [input_tokens |-> 0, output_tokens |-> 0, total_tokens |-> 0]
    /\ summary_calls = 0

UsageInit ==
    /\ messages = <<>>
    /\ CutoffIdle
    /\ AgentIdle
    /\ CacheIdle
    /\ ConcIdle
    /\ ChatIdle
    /\ now \in 0..MaxClock
    /\ left \in {u \in UsageInputs : StampOf(u) <= now}
    /\ right \in {u \in UsageInputs : StampOf(u) <= now}
    /\ merged = None
    /\ redelivered = None
    /\ uphase = "input"

Merge ==
    /\ uphase = "input"
    /\ merged' = add_usage(left, right, now)
    /\ uphase' = "merged"
    /\ UNCHANGED <<chat_vars, conc_vars, cache_vars, left, right, redelivered, now, messages, cutoff_vars, agent_vars>>

Redeliver ==
    /\ uphase \in {"merged", "later"}
    /\ redelivered' = add_usage(merged, right, now)
    /\ uphase' = "redelivered"
    /\ UNCHANGED <<chat_vars, conc_vars, cache_vars, left, right, merged, now, messages, cutoff_vars, agent_vars>>

\* The clock advances between the two deliveries.
UsageTick ==
    /\ uphase \in {"merged", "later"}
    /\ now < MaxClock
    /\ now' = now + 1
    /\ uphase' = "later"
    /\ UNCHANGED <<chat_vars, conc_vars, cache_vars, left, right, merged, redelivered, messages, cutoff_vars, agent_vars>>

UsageNext == Merge \/ Redeliver \/ UsageTick

SpecUsage == UsageInit /\ [][UsageNext]_vars

(***************************************************************************)
(* Properties of the usage ledger, checked under SpecUsage.                *)
(***************************************************************************)
\* The token counts of a record: every field but the timestamp.
CountsOf(u) == DropKey(u, "timestamp")

HasStamp(u) == "timestamp" \in DOMAIN u


\* C4: delivering the same incoming record a second time leaves the token
\* counts unchanged: add_usage(add_usage(L, R), R) has the counts of
\* add_usage(L, R), for every ledger L and every incoming record R.
C4_RedeliveryIdempotent ==
    (uphase = "redelivered" /\ left \in {None} \cup WellFormed /\ right \in WellFormed) => CountsOf(redelivered) = CountsOf(merged)

\* C5: for every usage record U that carries a timestamp, add_usage(U, U)
\* returns a record equal to U, its token counts not doubled.
C5_IdempotentDuplicate ==
    (uphase \in {"merged", "later", "redelivered"} /\ left = right /\ HasStamp(left)) => merged = left

C5_Witness ==
    /\ uphase = "merged"
    /\ left = right
    /\ left \in Stamped
    /\ merged["input_tokens"] = 10
    /\ merged["output_tokens"] = 5

\* C6: when both records are present and both carry a timestamp, add_usage
\* returns the record with the later timestamp, unchanged: the result is one
\* of the two inputs and no field of it is a sum.
C6_LaterSnapshot ==
    (uphase \in {"merged", "later", "redelivered"} /\ Truthy(left) /\ Truthy(right)
        /\ HasStamp(left) /\ HasStamp(right))
    => /\ merged \in {left, right}
       /\ merged["timestamp"] = Max(left["timestamp"], right["timestamp"])

C6_Witness ==
    /\ uphase = "merged"
    /\ left \in Stamped /\ right \in Stamped
    /\ left["timestamp"] < right["timestamp"]
    /\ CountsOf(left) # CountsOf(right)
    /\ merged = right

\* C7: when both records are present and at least one lacks a timestamp,
\* add_usage returns the field-wise sum of every numeric field, the nested
\* detail maps summed key by key with a key present on one side only passing
\* through, and the result is stamped with the current time.
C7_AdditiveRule ==
    (uphase = "merged" /\ Truthy(left) /\ Truthy(right)
        /\ ~(HasStamp(left) /\ HasStamp(right)))
    => /\ DOMAIN merged = DOMAIN left \cup DOMAIN right \cup {"timestamp"}
       /\ merged["timestamp"] = now
       /\ \A k \in (DOMAIN left \cup DOMAIN right) \ ({"timestamp"} \cup NestedKeys) :
            merged[k] = Get(left, k, 0) + Get(right, k, 0)
       /\ \A k \in (DOMAIN left \cup DOMAIN right) \cap NestedKeys :
            /\ DOMAIN merged[k] = DOMAIN Get(left, k, None) \cup DOMAIN Get(right, k, None)
            /\ \A j \in DOMAIN merged[k] :
                 merged[k][j] = Get(Get(left, k, None), j, 0) + Get(Get(right, k, None), j, 0)

\* merge((10, 5), (3, 2)) gives input 13 and output 7, and a detail key held
\* by one side only passes through.
C7_Witness ==
    /\ uphase = "merged"
    /\ left \in Unstamped /\ right \in Unstamped
    /\ left["input_tokens"] = 10 /\ left["output_tokens"] = 5
    /\ right["input_tokens"] = 3 /\ right["output_tokens"] = 2
    /\ "input_token_details" \in DOMAIN left
    /\ "input_token_details" \notin DOMAIN right
    /\ DOMAIN left["input_token_details"] = {"cache_read"}
    /\ merged["input_tokens"] = 13 /\ merged["output_tokens"] = 7
    /\ merged["input_token_details"]["cache_read"] = 1

\* C8: when exactly one record is present, add_usage returns it with its
\* token counts unchanged and the returned record carries a timestamp.
C8_SinglePresentStamped ==
    (uphase \in {"merged", "later", "redelivered"} /\ Truthy(left) # Truthy(right)
        /\ left \in {None} \cup WellFormed /\ right \in {None} \cup WellFormed)
    => /\ CountsOf(merged) = CountsOf(IF Truthy(left) THEN left ELSE right)
       /\ HasStamp(merged)

\* C9: a record missing required numeric fields is treated as absent: merged
\* with a well-formed record, the result has the well-formed record's counts.
C9_MalformedAsAbsent ==
    /\ (uphase \in {"merged", "later", "redelivered"} /\ left \in WellFormed /\ right \in Malformed)
        => CountsOf(merged) = CountsOf(left)
    /\ (uphase \in {"merged", "later", "redelivered"} /\ left \in Malformed /\ right \in WellFormed)
        => CountsOf(merged) = CountsOf(right)

\* C9 as amended: a non-empty unstamped record missing required numeric
\* fields is not treated as absent; merged with a well-formed record the
\* merge still returns a complete stamped record, in which every count the
\* malformed record carries is added to the well-formed record's count and
\* every count it lacks is the well-formed record's count.
MergedWithMalformed(w, m) ==
    /\ {"input_tokens", "output_tokens", "total_tokens", "timestamp"} \subseteq DOMAIN merged
    /\ \A k \in DOMAIN w \ ({"timestamp"} \cup NestedKeys) :
         merged[k] = IF k \in DOMAIN m THEN w[k] + m[k] ELSE w[k]
    /\ \A k \in DOMAIN w \cap NestedKeys : merged[k] = w[k]

C9_MalformedSummed ==
    /\ (uphase \in {"merged", "later", "redelivered"} /\ left \in WellFormed /\ right \in Malformed /\ ~HasStamp(right))
        => MergedWithMalformed(left, right)
    /\ (uphase \in {"merged", "later", "redelivered"} /\ left \in Malformed /\ right \in WellFormed /\ ~HasStamp(left))
        => MergedWithMalformed(right, left)

C9_Witness ==
    /\ uphase = "merged"
    /\ left \in Stamped
    /\ right \in Malformed /\ ~HasStamp(right)
    /\ left["input_tokens"] = 10 /\ left["output_tokens"] = 5
    /\ right["output_tokens"] = 2
    /\ merged["input_tokens"] = 10 /\ merged["output_tokens"] = 7

\* C27: when both records carry a timestamp and the two timestamps are
\* equal, add_usage returns the existing (left) record and the counts of the
\* incoming (right) record are discarded, also when the counts differ.
C27_TimestampTie ==
    (uphase \in {"merged", "later", "redelivered"}
        /\ HasStamp(left) /\ HasStamp(right)
        /\ left["timestamp"] = right["timestamp"])
    => /\ merged = left
       /\ CountsOf(merged) = CountsOf(left)

\* Two records of the same second with different counts were merged.
C27_Witness ==
    /\ uphase = "merged"
    /\ left \in Stamped /\ right \in Stamped
    /\ left["timestamp"] = right["timestamp"]
    /\ left["input_tokens"] = 3 /\ right["input_tokens"] = 10
    /\ merged["input_tokens"] = 3

(***************************************************************************)
(* _find_safe_cutoff as a function: a message sequence is built one        *)
(* message at a time, of any class in any position, and the locator is     *)
(* applied to it.                                                          *)
(***************************************************************************)
CallIds == {1, 2}

PlainMessages == {HumanMessage(0)}

AgentMessages ==
    {AIMessage(c, None, 0) : c \in SUBSET CallIds}
    \cup {ToolMessage(id, 0) : id \in CallIds}

NumAgent(msgs) == Cardinality({i \in 1..Len(msgs) : msgs[i].type # "human"})

CutoffInit ==
    /\ messages = <<>>
    /\ cutoff_index = 0
    /\ cphase = "building"
    /\ now = 0
    /\ UsageIdle
    /\ AgentIdle
    /\ CacheIdle
    /\ ConcIdle
    /\ ChatIdle

AppendPlain ==
    /\ cphase = "building"
    /\ Len(messages) < MaxLen
    /\ \E m \in PlainMessages : messages' = Append(messages, m)
    /\ UNCHANGED <<chat_vars, conc_vars, cache_vars, cutoff_vars, now, usage_vars, agent_vars>>

AppendAgent ==
    /\ cphase = "building"
    /\ Len(messages) < MaxLen
    /\ NumAgent(messages) < MaxAgentMessages
    /\ \E m \in AgentMessages : messages' = Append(messages, m)
    /\ UNCHANGED <<chat_vars, conc_vars, cache_vars, cutoff_vars, now, usage_vars, agent_vars>>

FindCutoff ==
    /\ cphase = "building"
    /\ cutoff_index' = _find_safe_cutoff(messages)
    /\ cphase' = "found"
    /\ UNCHANGED <<chat_vars, conc_vars, cache_vars, messages, now, usage_vars, agent_vars>>

CutoffNext == AppendPlain \/ AppendAgent \/ FindCutoff

SpecCutoff == CutoffInit /\ [][CutoffNext]_vars

(***************************************************************************)
(* Properties of the safe-cutoff locator, checked under SpecCutoff.        *)
(***************************************************************************)
\* The indices of the tool results that answer a call of the message at a.
ResultsOf(msgs, a) ==
    {j \in (a + 1)..(Len(msgs) - 1) :
        At(msgs, j).type = "tool" /\ At(msgs, j).tool_call_id \in At(msgs, a).tool_calls}

\* C1: for any message sequence with an assistant tool-call message at index
\* a and the tool results that answer it at later indices, the locator never
\* returns an index strictly between a and the latest of those results.
C1_PairingSafety ==
    cphase = "found" =>
        \A a \in 0..(Len(messages) - 1) :
            (_has_tool_calls(At(messages, a)) /\ ResultsOf(messages, a) # {})
            => ~(a < cutoff_index /\ cutoff_index < SetMax(ResultsOf(messages, a)))

\* C10: for every message sequence no longer than messages_to_keep the
\* locator returns 0, whatever tool-call pairs the sequence holds.
C10_NoOpBelowFloor ==
    (cphase = "found" /\ Len(messages) <= messages_to_keep) => cutoff_index = 0

C10_Witness ==
    /\ cphase = "found"
    /\ Len(messages) = messages_to_keep
    /\ \E a \in 0..(Len(messages) - 1) :
         _has_tool_calls(At(messages, a)) /\ ResultsOf(messages, a) # {}
    /\ cutoff_index = 0

\* C11: when the log is longer than messages_to_keep, the locator returns the
\* largest index in 0..target (target = len - messages_to_keep) that passes
\* _is_safe_cutoff_point, which is 0 when no index in 1..target passes; the
\* result is always within 0..target.
C11_LargestSafeIndex ==
    (cphase = "found" /\ Len(messages) > messages_to_keep) =>
        LET target == Len(messages) - messages_to_keep
        IN  /\ cutoff_index \in 0..target
            /\ _is_safe_cutoff_point(messages, cutoff_index)
            /\ \A i \in (cutoff_index + 1)..target :
                    ~_is_safe_cutoff_point(messages, i)
            /\ (\A i \in 1..target : ~_is_safe_cutoff_point(messages, i))
                    => cutoff_index = 0

\* The target itself is unsafe and the search settles on a lower index that
\* is not 0.
C11_Witness ==
    /\ cphase = "found"
    /\ Len(messages) > messages_to_keep
    /\ ~_is_safe_cutoff_point(messages, Len(messages) - messages_to_keep)
    /\ cutoff_index > 0
    /\ cutoff_index < Len(messages) - messages_to_keep

\* An assistant message at index a whose calls have a result at or after c.
CallOpenAt(msgs, a, c) ==
    _has_tool_calls(At(msgs, a)) /\ \E j \in ResultsOf(msgs, a) : j >= c

\* C28: for every cutoff c > 0 the locator returns, no assistant message with
\* tool calls at an index in c-5..c-1 has a matching tool result at an index
\* >= c; and for the sequence the locator was given, whether a candidate
\* index passes _is_safe_cutoff_point depends on the assistant messages of
\* that window only: those at indices >= c or below c-5 never make a
\* candidate unsafe.
C28_BoundedWindow ==
    /\ (cphase = "found" /\ cutoff_index > 0) =>
          \A a \in Max(0, cutoff_index - _SEARCH_RANGE_FOR_TOOL_PAIRS)..(cutoff_index - 1) :
              ~CallOpenAt(messages, a, cutoff_index)
    /\ cphase = "found" =>
          \A c \in 1..(Len(messages) - 1) :
              _is_safe_cutoff_point(messages, c)
                = (\A a \in Max(0, c - _SEARCH_RANGE_FOR_TOOL_PAIRS)..(c - 1) :
                        ~CallOpenAt(messages, a, c))

\* The locator returned a cutoff that an assistant message below the window
\* has a result beyond, and that an assistant message inside the window has
\* its results before.
C28_Witness ==
    /\ cphase = "found"
    /\ cutoff_index > _SEARCH_RANGE_FOR_TOOL_PAIRS
    /\ \E a \in (cutoff_index - _SEARCH_RANGE_FOR_TOOL_PAIRS)..(cutoff_index - 1) :
          _has_tool_calls(At(messages, a))
    /\ \E a \in 0..(cutoff_index - _SEARCH_RANGE_FOR_TOOL_PAIRS - 1) :
          CallOpenAt(messages, a, cutoff_index)

(***************************************************************************)
(* The conversation: the agent graph of create_agent run turn by turn.     *)
(* Each node's return value is folded into the stored state by the         *)
(* reducers of HistoryMessageState.                                        *)
(***************************************************************************)
HumanTokenSizes == {1000, 3000}

ReplyTokenSizes == {500}

\* get_llm() builds the model with stream_usage=True: every reply carries
\* usage_metadata.
ModelUsages == {Counts(10, 5)}

SummaryBackends ==
    {[kind |-> "ok", usage |-> u, tokens |-> tok] :
        u \in {None, Counts(3, 2)}, tok \in ReplyTokenSizes}
    \cup {[kind |-> k, usage |-> None, tokens |-> tok] :
            k \in {"error", "too_long"}, tok \in ReplyTokenSizes}

\* The model asks for no tool, for one, or for the most it may ask for.
ParallelCalls == {0, 1, MaxParallelCalls}

NoSpend == [input_tokens |-> 0, output_tokens |-> 0, total_tokens |-> 0]

\* The running total of what the backends reported.
Spend(total, usage) ==
    IF Truthy(usage)
    THEN [k \in DOMAIN total |-> total[k] + Get(usage, k, 0)]
    ELSE total

State ==
    [messages |-> messages, token_usage |-> token_usage,
     summary_info |-> summary_info, llm_input_messages |-> llm_input_messages]

\* The node returned the dict ret: every key goes through its reducer.
Reduce(ret) ==
    /\ messages' = add_messages(messages, ret.messages, next_id)
    /\ next_id' = next_id + NumWithoutId(ret.messages)
    /\ token_usage' = add_usage(token_usage, ret.token_usage, now)
    /\ summary_info' = append_summary(summary_info, ret.summary_info)
    /\ llm_input_messages' = ret.llm_input_messages

Init ==
    /\ messages = <<>>
    /\ token_usage = None
    /\ summary_info = None
    /\ llm_input_messages = <<>>
    /\ pc = "idle"
    /\ next_id = 1
    /\ next_call_id = 1
    /\ turns = 0
    /\ model_calls = 0
    /\ spent = NoSpend
    /\ summary_calls = 0
    /\ now = 0
    /\ UsageIdle
    /\ CutoffIdle
    /\ CacheIdle
    /\ ConcIdle
    /\ ChatIdle

\* AgentService._create_new_state: the input of a run.
NewTurn ==
    /\ pc = "idle"
    /\ turns < MaxTurns
    /\ model_calls < MaxModelCalls
    /\ \E tok \in HumanTokenSizes :
         Reduce([messages |-> <<HumanMessage(tok)>>, token_usage |-> None,
                 summary_info |-> None, llm_input_messages |-> llm_input_messages])
    /\ turns' = turns + 1
    /\ pc' = "pre"
    /\ UNCHANGED <<chat_vars, conc_vars, cache_vars, now, next_call_id, model_calls, spent, summary_calls,
                   usage_vars, cutoff_vars>>

PreModelHook ==
    /\ pc = "pre"
    /\ Reduce(pre_model_hook(State))
    /\ pc' = "model"
    /\ UNCHANGED <<chat_vars, conc_vars, cache_vars, now, next_call_id, turns, model_calls, spent, summary_calls,
                   usage_vars, cutoff_vars>>

\* The model answers with n tool calls and reports usage.
ModelCall ==
    /\ pc = "model"
    /\ \E n \in ParallelCalls, usage \in ModelUsages, tok \in ReplyTokenSizes :
         /\ (model_calls + 1 >= MaxModelCalls) => n = 0
         /\ messages' = add_messages(messages,
                <<AIMessage(next_call_id..(next_call_id + n - 1), usage, tok)>>, next_id)
         /\ next_call_id' = next_call_id + n
         /\ spent' = Spend(spent, usage)
    /\ next_id' = next_id + 1
    /\ model_calls' = model_calls + 1
    /\ pc' = "post"
    /\ UNCHANGED <<chat_vars, conc_vars, cache_vars, now, state_vars, turns, summary_calls, usage_vars, cutoff_vars>>

PostModelHook ==
    /\ pc = "post"
    /\ \E backend \in SummaryBackends :
         \E ret \in {post_model_hook(State, backend, now)} :
             LET compacted == ret.messages # messages
             IN  /\ (~compacted) => backend.kind = "error"
                 /\ Reduce(ret)
                 /\ spent' = IF compacted THEN Spend(spent, backend.usage) ELSE spent
                 /\ summary_calls' = summary_calls + summary_invocations(State, backend)
    /\ pc' = IF messages[Len(messages)].tool_calls # {} THEN "tools" ELSE "idle"
    /\ UNCHANGED <<chat_vars, conc_vars, cache_vars, now, next_call_id, turns, model_calls, usage_vars, cutoff_vars>>

\* The tool node answers every call of the last message, in order.
RECURSIVE ToolResults(_, _)
ToolResults(ids, tok) ==
    IF ids = {} THEN <<>>
    ELSE LET id == CHOOSE x \in ids : \A y \in ids : x <= y
         IN  <<ToolMessage(id, tok)>> \o ToolResults(ids \ {id}, tok)

Tools ==
    /\ pc = "tools"
    /\ \E tok \in ReplyTokenSizes :
         LET results == ToolResults(messages[Len(messages)].tool_calls, tok)
         IN  /\ messages' = add_messages(messages, results, next_id)
             /\ next_id' = next_id + Len(results)
    /\ pc' = "pre"
    /\ UNCHANGED <<chat_vars, conc_vars, cache_vars, now, state_vars, next_call_id, turns, model_calls, spent,
                   summary_calls, usage_vars, cutoff_vars>>

Tick ==
    /\ pc # "unused"
    /\ now < MaxClock
    /\ now' = now + 1
    /\ UNCHANGED <<chat_vars, conc_vars, cache_vars, messages, agent_vars, usage_vars, cutoff_vars>>

Next == NewTurn \/ PreModelHook \/ ModelCall \/ PostModelHook \/ Tools \/ Tick

Spec == Init /\ [][Next]_vars

(***************************************************************************)
(* Properties of the conversation, checked under Spec.                     *)
(***************************************************************************)
\* C2: every tool result in the log has the assistant message that made its
\* call earlier in the log, after any sequence of turns and compactions.
C2_NoOrphanToolResult ==
    \A j \in 1..Len(messages) :
        messages[j].type = "tool" =>
            \E a \in 1..(j - 1) :
                /\ messages[a].type = "ai"
                /\ messages[j].tool_call_id \in messages[a].tool_calls

\* C3: once a model call's post-model hook has been folded into the stored
\* ledger, the ledger's input, output and total token counts are the sums of
\* the usage of every model call and summarization call made so far.
C3_LedgerIsSumOfCalls ==
    pc \in {"idle", "tools", "pre", "model"} =>
        \A k \in DOMAIN spent : Get(token_usage, k, 0) = spent[k]

\* The texts _create_summary can produce.
SummaryTexts ==
    {"summary_text", "summary_error", "summary_too_long", "summary_no_history"}

\* The log starts with a summary message installed by a compaction.
StartsWithSummary(msgs) == msgs # <<>> /\ msgs[1].content \in SummaryTexts

\* C12: whenever the post-model hook compacts the log, the cutoff c it used is
\* above 0 and the new log is exactly one new summary message followed by
\* the old messages c..len-1, unchanged and in order; in particular the
\* messages_to_keep most recent messages survive verbatim.
C12_InstallShape ==
    [][(pc = "post" /\ messages' # messages) =>
        LET c == _find_safe_cutoff(messages)
            n == Len(messages)
        IN  /\ c > 0
            /\ Len(messages') = 1 + (n - c)
            /\ messages'[1].type = "human"
            /\ messages'[1].content \in SummaryTexts
            /\ \A i \in 1..n : messages[i].id # messages'[1].id
            /\ \A i \in 1..(n - c) : messages'[1 + i] = messages[c + i]
            /\ n - c >= messages_to_keep
            /\ \A k \in 0..(messages_to_keep - 1) :
                    messages'[Len(messages') - k] = messages[n - k]]_vars

\* A hook has just compacted a log and kept more than the floor.
C12_Witness ==
    /\ pc \in {"idle", "tools"}
    /\ StartsWithSummary(messages)
    /\ Len(messages) > 1 + messages_to_keep
    /\ summary_calls > 0

\* C13: every compaction advances the compaction mark: once the head of the
\* log has been replaced by a summary, summary_info records the boundary and
\* the summary of that compaction.
C13_InstallAdvancesMark ==
    StartsWithSummary(messages) =>
        /\ "summary" \in DOMAIN summary_info
        /\ Get(summary_info, "cutoff_point", 0) > 0

\* C14: if the token estimate is below the threshold, or the safe cutoff is
\* 0, summarize_messages returns the state it was given, and the hook makes
\* no summarization call, leaves the log as it is and spends nothing; the
\* backend is called at most once per post-model hook, and only when the
\* estimate is at or above the threshold and the cutoff is above 0.
C14_NoOpConditions ==
    [][(pc = "post" /\ pc' # "post") =>
        LET noop == \/ count_tokens_approximately(messages) < max_tokens_before_summary
                    \/ _find_safe_cutoff(messages) <= 0
        IN  /\ noop =>
                  /\ \A b \in SummaryBackends : summarize_messages(State, b, now) = State
                  /\ messages' = messages
                  /\ spent' = spent
                  /\ summary_calls' = summary_calls
            /\ summary_calls' \in {summary_calls, summary_calls + 1}
            /\ summary_calls' # summary_calls => ~noop]_vars

\* A hook has just left alone a log that is over the threshold, because the
\* cutoff is 0.
C14_Witness ==
    /\ pc \in {"idle", "tools"}
    /\ model_calls > 0
    /\ summary_calls = 0
    /\ ~StartsWithSummary(messages)
    /\ count_tokens_approximately(messages) >= max_tokens_before_summary
    /\ _find_safe_cutoff(messages) = 0

\* C15: on an empty input _create_summary returns the placeholder without
\* calling the backend; and whenever a hook is about to compact, a backend
\* that raises still yields the installed log, a summary noting the error
\* followed by the preserved tail, with the ledger's counts as they were.
C15_TotalUnderBackendFailure ==
    /\ \A b \in SummaryBackends :
            LET created == _create_summary(b, <<>>)
            IN  /\ created.summary.text = "summary_no_history"
                /\ created.usage = None
                /\ ~created.invoked
    /\ (/\ pc = "post"
        /\ count_tokens_approximately(messages) >= max_tokens_before_summary
        /\ _find_safe_cutoff(messages) > 0) =>
            \A b \in SummaryBackends :
                b.kind = "error" =>
                    LET after == summarize_messages(State, b, now)
                        c     == _find_safe_cutoff(messages)
                    IN  /\ Len(after.messages) = 2 + (Len(messages) - c)
                        /\ after.messages[1] = RemoveAll
                        /\ after.messages[2].content = "summary_error"
                        /\ SubSeq(after.messages, 3, Len(after.messages))
                              = SubSeq(messages, c + 1, Len(messages))
                        /\ \A k \in DOMAIN NoSpend :
                              Get(after.token_usage, k, 0) = Get(token_usage, k, 0)
                        /\ summary_invocations(State, b) = 1

\* A compaction whose backend call raised has been installed.
C15_Witness ==
    /\ pc \in {"idle", "tools"}
    /\ messages # <<>>
    /\ messages[1].content = "summary_error"
    /\ Len(messages) >= 1 + messages_to_keep

\* Every tool result of msgs has the assistant message that made its call
\* earlier in msgs.
NoOrphan(msgs) ==
    \A j \in 1..Len(msgs) :
        msgs[j].type = "tool" =>
            \E a \in 1..(j - 1) :
                msgs[a].type = "ai" /\ msgs[j].tool_call_id \in msgs[a].tool_calls

\* Every tool call of msgs and each of its results are on the same side of
\* the index target.
PairsOnOneSide(msgs, target) ==
    \A a \in 0..(Len(msgs) - 1) :
        _has_tool_calls(At(msgs, a)) =>
            \A j \in ResultsOf(msgs, a) : (a < target) = (j < target)

\* C21: when the post-model hook runs on a log at or over the token
\* threshold, longer than messages_to_keep, in which every tool-call/result
\* pair lies on one side of target = len - messages_to_keep, it compacts and
\* the new log is exactly one summary message followed by the last
\* messages_to_keep old messages, with no tool result lacking its call.
C21_CompactionShape ==
    [][(/\ pc = "post" /\ pc' # "post"
        /\ count_tokens_approximately(messages) >= max_tokens_before_summary
        /\ Len(messages) > messages_to_keep
        /\ PairsOnOneSide(messages, Len(messages) - messages_to_keep)) =>
        LET n == Len(messages)
        IN  /\ Len(messages') = 1 + messages_to_keep
            /\ messages'[1].type = "human"
            /\ messages'[1].content \in SummaryTexts
            /\ \A i \in 1..n : messages[i].id # messages'[1].id
            /\ \A k \in 1..messages_to_keep :
                    messages'[1 + k] = messages[n - messages_to_keep + k]
            /\ NoOrphan(messages')]_vars

\* The third model call of a conversation that used a tool has just been
\* compacted down to a summary and the floor, the tool pair being in the
\* summarized head.
C21_Witness ==
    /\ pc = "idle"
    /\ model_calls = 3
    /\ next_call_id > 1
    /\ summary_calls = 1
    /\ StartsWithSummary(messages)
    /\ Len(messages) = 1 + messages_to_keep
    /\ \A i \in 1..Len(messages) : messages[i].type # "tool"
    /\ messages[2].type = "human"

\* C23: in a post-model hook that compacts, with a backend that reports
\* usage s for the summary and a last message that carries usage u, the
\* token_usage the hook returns has the counts of the ledger at hook entry
\* plus s plus u, each added once.
C23_SummaryUsageCharged ==
    (/\ pc = "post"
     /\ count_tokens_approximately(messages) >= max_tokens_before_summary
     /\ _find_safe_cutoff(messages) > 0
     /\ Truthy(messages[Len(messages)].usage_metadata)) =>
        \A b \in SummaryBackends :
            (b.kind = "ok" /\ Truthy(b.usage)) =>
                LET ret == post_model_hook(State, b, now)
                    u   == messages[Len(messages)].usage_metadata
                IN  /\ ret.messages # messages
                    /\ \A k \in DOMAIN NoSpend :
                          Get(ret.token_usage, k, 0)
                            = Get(token_usage, k, 0) + b.usage[k] + u[k]

\* The hook of the second model call compacted, and the stored ledger holds
\* the two model calls and the summarization call.
C23_Witness ==
    /\ pc \in {"idle", "tools"}
    /\ model_calls = 2
    /\ summary_calls = 1
    /\ messages # <<>>
    /\ messages[1].content = "summary_text"
    /\ spent["total_tokens"] = 35
    /\ Get(token_usage, "total_tokens", 0) = 35

\* The positions of the summary messages in msgs.
SummaryIndices(msgs) == {i \in 1..Len(msgs) : msgs[i].content \in SummaryTexts}

\* C29: after any sequence of post-model hooks the log holds at most one
\* summary message and, if there is one, it is the first message of the log;
\* and the message the current model call produced, the last of the log when
\* the hook starts, is still the last message when the hook is done, behind
\* the summary if the hook compacted.
C29_SingleSummary ==
    [][/\ Cardinality(SummaryIndices(messages')) <= 1
       /\ SummaryIndices(messages') \subseteq {1}
       /\ (pc = "post" /\ pc' # "post") =>
            /\ messages'[Len(messages')] = messages[Len(messages)]
            /\ messages'[Len(messages')].type = "ai"
            /\ Len(messages') > 1]_vars

\* Two compactions have run, the second on a log that began with the summary
\* of the first.
C29_Witness ==
    /\ pc = "idle"
    /\ summary_calls = 2
    /\ SummaryIndices(messages) = {1}
    /\ Len(messages) > messages_to_keep

(***************************************************************************)
(* pre_model_hook as a function: it is applied to a state dict whose log   *)
(* and compaction mark are any of the values the state schema admits       *)
(* (SummaryInformation: cutoff_point, and optionally summary).             *)
(***************************************************************************)
MaxViewLen == 3

ViewMessages == {HumanMessage(1000), AIMessage({}, Counts(10, 5), 500)}

ViewLogs ==
    {AssignIds(s, 1) : s \in UNION {[1..n -> ViewMessages] : n \in 0..MaxViewLen}}

ViewMarks ==
    {None, [cutoff_point |-> 0]}
    \cup {[summary |-> _build_new_messages([text |-> "summary_text", tokens |-> 500])[1],
           cutoff_point |-> c] : c \in 0..MaxViewLen}

ViewLedgers == {None, SetKey(Counts(10, 5), "timestamp", 0)}

ViewInit ==
    /\ messages \in ViewLogs
    /\ summary_info \in ViewMarks
    /\ token_usage \in ViewLedgers
    /\ llm_input_messages = <<>>
    /\ pc = "view"
    /\ next_id = 1 /\ next_call_id = 1
    /\ turns = 0 /\ model_calls = 0
    /\ spent = NoSpend
    /\ summary_calls = 0
    /\ now = 0
    /\ UsageIdle
    /\ CutoffIdle
    /\ CacheIdle
    /\ ConcIdle
    /\ ChatIdle

\* The hook is called on the state dict and returns it.
ViewPreModelHook ==
    /\ pc = "view"
    /\ \E ret \in {pre_model_hook(State)} :
         /\ messages' = ret.messages
         /\ token_usage' = ret.token_usage
         /\ summary_info' = ret.summary_info
         /\ llm_input_messages' = ret.llm_input_messages
    /\ pc' = "viewed"
    /\ UNCHANGED <<chat_vars, conc_vars, cache_vars, now, next_id, next_call_id, turns, model_calls, spent,
                   summary_calls, usage_vars, cutoff_vars>>

ViewNext == ViewPreModelHook

SpecView == ViewInit /\ [][ViewNext]_vars

\* C24: pre_model_hook sets llm_input_messages to the stored summary
\* followed by messages[cutoff_point:], in order, when the compaction mark
\* carries a summary, and to the whole log otherwise; in both cases it leaves
\* the message log and the usage ledger as they are.
C24_PreTurnView ==
    [][(pc = "view" /\ pc' = "viewed") =>
        /\ IF Truthy(summary_info) /\ "summary" \in DOMAIN summary_info
           THEN LET c == summary_info["cutoff_point"]
                IN  /\ Len(llm_input_messages') = 1 + Max(0, Len(messages) - c)
                    /\ llm_input_messages'[1] = summary_info["summary"]
                    /\ \A i \in 1..(Len(messages) - c) :
                          llm_input_messages'[1 + i] = messages[c + i]
           ELSE llm_input_messages' = messages
        /\ messages' = messages
        /\ token_usage' = token_usage]_vars

\* The hook has built the view of a three-message log whose mark carries a
\* summary and the cutoff 2: the summary and the last message.
C24_Witness ==
    /\ pc = "viewed"
    /\ Len(messages) = 3
    /\ "summary" \in DOMAIN summary_info
    /\ summary_info["cutoff_point"] = 2
    /\ Len(llm_input_messages) = 2
    /\ llm_input_messages[2] = messages[3]

(***************************************************************************)
(* The cache in use: callers make search_documents calls one after the     *)
(* other while the clock advances; the vector store may fail a call.       *)
(***************************************************************************)
CacheInit ==
    /\ query_cache = <<>>
    /\ cache_now = 0
    /\ last_search = NoSearch
    /\ messages = <<>>
    /\ now = 0
    /\ UsageIdle
    /\ CutoffIdle
    /\ AgentIdle
    /\ ConcIdle
    /\ ChatIdle

\* One search_documents call, from its first line to its return or raise.
\* The vector store being down is only told apart when the call reaches it.
Search ==
    /\ last_search.calls < MaxSearches
    /\ \E query \in Queries, user_id \in UserIds, limit \in Limits,
          min_score \in MinScores, store_up \in BOOLEAN :
         \E r \in {search_documents(query_cache, query, user_id, limit, min_score,
                                     cache_now, store_up)} :
             /\ store_up \/ r.raised
             /\ query_cache' = r.cache
             /\ last_search' =
                    [calls |-> last_search.calls + 1, query |-> query,
                     user_id |-> user_id, limit |-> limit,
                     before |-> EntryState(query_cache, KeyOf(query, user_id), cache_now),
                     raised |-> r.raised, value |-> r.value,
                     computed |-> r.computed, searched |-> r.searched,
                     evicted |-> r.evicted]
    /\ UNCHANGED <<chat_vars, conc_vars, cache_now, usage_vars, now, messages, cutoff_vars, agent_vars>>

CacheTick ==
    /\ cache_now < MaxCacheClock
    /\ cache_now' = cache_now + 1
    /\ UNCHANGED <<chat_vars, conc_vars, query_cache, last_search, usage_vars, now, messages, cutoff_vars,
                   agent_vars>>

CacheNext == Search \/ CacheTick

SpecCache == CacheInit /\ [][CacheNext]_vars

(***************************************************************************)
(* Properties of the query result cache, checked under SpecCache.          *)
(***************************************************************************)
\* The step is a search_documents call.
SearchStep == last_search'.calls # last_search.calls

\* The cache key of the latest call.
LastKey(ls) == KeyOf(ls.query, ls.user_id)

\* C16: for every key with a stored entry younger than the time to live, a
\* search_documents call returns the cached value, cut to the caller's
\* limit, without calling get_relevant_documents or the vector store and
\* without touching the cache, whatever the cached value is, an empty
\* result list included.
C16_CacheHit ==
    [][SearchStep =>
        LET ls    == last_search'
            fresh == FreshEntries(query_cache, LastKey(ls), cache_now)
        IN  fresh # {} =>
              /\ ~ls.raised
              /\ ~ls.computed
              /\ ~ls.searched
              /\ \A i \in fresh :
                    ls.value = FormatDocuments(Take(query_cache[i].result, ls.limit))
              /\ query_cache' = query_cache]_vars

\* C17: a call is answered from the cache only when the key's entry is
\* younger than the time to live; a call on a key whose entry has expired
\* removes that entry and calls get_relevant_documents once, and when that
\* returns, the key's entry is the result with the time of the call as its
\* insertion time.
C17_StalenessBound ==
    [][SearchStep =>
        LET ls  == last_search'
            key == LastKey(ls)
        IN  /\ (~ls.computed) => FreshEntries(query_cache, key, cache_now) # {}
            /\ (/\ CacheIndex(query_cache, key) # {}
                /\ FreshEntries(query_cache, key, cache_now) = {}) =>
                  /\ ls.computed
                  /\ \A i \in CacheIndex(query_cache, key) :
                        \A j \in CacheIndex(query_cache', key) :
                            query_cache'[j] # query_cache[i]
                  /\ ls.raised => CacheIndex(query_cache', key) = {}
                  /\ (~ls.raised) =>
                        /\ Cardinality(CacheIndex(query_cache', key)) = 1
                        /\ \A j \in CacheIndex(query_cache', key) :
                              /\ query_cache'[j].timestamp = cache_now
                              /\ FormatDocuments(query_cache'[j].result) = ls.value]_vars

\* The latest call found its key's entry expired, searched again and stored
\* what it got.
C17_Witness ==
    /\ last_search.before = "expired"
    /\ last_search.computed
    /\ last_search.searched
    /\ ~last_search.raised
    /\ last_search.value # <<>>
    /\ FreshEntries(query_cache, LastKey(last_search), cache_now) # {}

\* C18: after any sequence of search_documents calls the cache holds no more
\* entries than its size limit.
C18_CapacityBound == Len(query_cache) <= MaxCacheEntries

\* C19: when the cache holds as many entries as its size limit, all younger
\* than the time to live, a call on a further key that stores its result
\* evicts exactly one entry, one with the earliest insertion time; after it
\* a call on the evicted key is a miss and a call on any other of the keys
\* is a hit.
C19_CapacityEviction ==
    [][(/\ SearchStep
        /\ Len(query_cache) = MaxCacheEntries
        /\ \A i \in 1..Len(query_cache) :
              cache_now - query_cache[i].timestamp < _cache_ttl
        /\ last_search'.before = "absent"
        /\ last_search'.computed
        /\ ~last_search'.raised) =>
        \E i \in 1..Len(query_cache) :
            /\ \A j \in 1..Len(query_cache) :
                  query_cache[i].timestamp <= query_cache[j].timestamp
            /\ Len(query_cache') = MaxCacheEntries
            /\ SubSeq(query_cache', 1, MaxCacheEntries - 1) = RemoveAt(query_cache, i)
            /\ query_cache'[MaxCacheEntries].key = LastKey(last_search')
            /\ \A query \in Queries, user_id \in UserIds, limit \in Limits,
                  min_score \in MinScores :
                 LET r == search_documents(query_cache', query, user_id, limit,
                                           min_score, cache_now, TRUE)
                 IN  /\ KeyOf(query, user_id) = query_cache[i].key => r.computed
                     /\ CacheIndex(query_cache', KeyOf(query, user_id)) # {}
                          => ~r.computed]_vars

\* C20: a call that reaches the vector store while it fails raises; when
\* a call raises, nothing is stored for its key, every entry the cache is
\* left with is an entry it had, every entry younger than the time to live
\* is still there, and the next call on the key, now or later, calls
\* get_relevant_documents again.
C20_FailuresNeverCached ==
    [][SearchStep =>
        LET ls  == last_search'
            key == LastKey(ls)
        IN  /\ \A min_score \in MinScores :
                 LET r == search_documents(query_cache, ls.query, ls.user_id, ls.limit,
                                           min_score, cache_now, FALSE)
                 IN  r.searched => r.raised
            /\ ls.raised =>
                 /\ \A j \in 1..Len(query_cache') :
                        \E i \in 1..Len(query_cache) : query_cache'[j] = query_cache[i]
                 /\ \A i \in 1..Len(query_cache) :
                        cache_now - query_cache[i].timestamp < _cache_ttl
                        => \E j \in 1..Len(query_cache') : query_cache'[j] = query_cache[i]
                 /\ \A t \in cache_now..MaxCacheClock, limit \in Limits,
                       min_score \in MinScores, store_up \in BOOLEAN :
                        search_documents(query_cache', ls.query, ls.user_id, limit,
                                         min_score, t, store_up).computed]_vars

\* The latest call raised after it had removed its key's expired entry,
\* and left the entries of other keys in the cache.
C20_Witness ==
    /\ last_search.raised
    /\ last_search.before = "expired"
    /\ query_cache # <<>>

\* The entries of cache under keys other than cache_key, in order.
Others(cache, cache_key) ==
    LET other(e) == e.key # cache_key
    IN  SelectSeq(cache, other)

\* The cache without the entry of cache_key if that entry has expired at t.
WithoutExpired(cache, cache_key, t) ==
    LET stays(e) == ~(e.key = cache_key /\ t - e.timestamp >= _cache_ttl)
    IN  SelectSeq(cache, stays)

\* C22: _cache_result evicts when it finds the cache over its size limit,
\* and then it removes exactly one entry, one with the smallest stored
\* timestamp; a call that stores without evicting removes no entry of
\* another key; and a call answered from the cache leaves every entry and
\* every timestamp as it was, so that a key that is read keeps the insertion
\* time it is evicted by.
C22_EvictionByInsertionTime ==
    [][SearchStep =>
        LET ls        == last_search'
            key       == LastKey(ls)
            remaining == WithoutExpired(query_cache, key, cache_now)
        IN  /\ ls.evicted = (/\ ls.computed /\ ~ls.raised
                             /\ Len(remaining) > MaxCacheEntries)
            /\ ls.evicted =>
                  /\ \E i \in 1..Len(remaining) :
                        /\ \A j \in 1..Len(remaining) :
                              remaining[i].timestamp <= remaining[j].timestamp
                        /\ Others(query_cache', key) = Others(RemoveAt(remaining, i), key)
                  /\ Cardinality(CacheIndex(query_cache', key)) = 1
                  /\ Len(query_cache') \in {Len(remaining) - 1, Len(remaining)}
            /\ (ls.computed /\ ~ls.raised /\ ~ls.evicted) =>
                  Others(query_cache', key) = Others(remaining, key)
            /\ (~ls.computed) => query_cache' = query_cache]_vars

\* The latest call evicted the entry stored first and left the one stored
\* later in the cache, next to its own.
C22_Witness ==
    /\ last_search.evicted
    /\ Len(query_cache) = MaxCacheEntries + 1
    /\ query_cache[1].timestamp > 0
    /\ query_cache[1].key # LastKey(last_search)

\* C30: for a fixed content of the vector store, a call answered from an
\* unexpired cache entry returns the result list a fresh search with the
\* call's own limit and min_score would return, whatever limit and min_score
\* the call that stored the entry had.
C30_CacheTransparency ==
    [][SearchStep =>
        LET ls == last_search'
        IN  (~ls.computed) =>
                \A min_score \in MinScores :
                    ls.value = FormatDocuments(
                        get_relevant_documents(ls.query, ls.limit,
                            MetadataFilter(ls.user_id), min_score, TRUE).documents)]_vars

(***************************************************************************)
(* The cache under concurrent callers: search_documents calls of several   *)
(* conversations run on one event loop and one RAGService.  A call runs    *)
(* without interruption up to the await of the vector search and again     *)
(* from the answer to its return; other calls and the clock may advance    *)
(* in between.  Each call keeps its arguments in its own frame.            *)
(***************************************************************************)
MaxConcurrentSearches == 2

ConcInit ==
    /\ query_cache = <<>>
    /\ cache_now = 0
    /\ last_search = NoSearch
    /\ inflight = [c \in Callers |-> NoCall]
    /\ started = 0
    /\ messages = <<>>
    /\ now = 0
    /\ UsageIdle
    /\ CutoffIdle
    /\ AgentIdle
    /\ ChatIdle

\* search_documents from its first line to its first suspension: a call that
\* does not reach the vector store (a hit, or a query of fewer than two
\* words) runs to its return; any other call has looked its key up, dropped
\* it if expired, and waits for the vector search.
SearchBegin(c) ==
    /\ inflight[c].pc = "idle"
    /\ started < MaxConcurrentSearches
    /\ \E query \in Queries, user_id \in UserIds, limit \in Limits,
          min_score \in MinScores :
         \E r \in {search_documents(query_cache, query, user_id, limit, min_score,
                                     cache_now, TRUE)} :
             LET before == EntryState(query_cache, KeyOf(query, user_id), cache_now)
             IN  IF ~r.searched
                 THEN /\ query_cache' = r.cache
                      /\ last_search' =
                            [calls |-> last_search.calls + 1, query |-> query,
                             user_id |-> user_id, limit |-> limit, before |-> before,
                             raised |-> r.raised, value |-> r.value,
                             computed |-> r.computed, searched |-> r.searched,
                             evicted |-> r.evicted]
                      /\ UNCHANGED inflight
                 ELSE /\ query_cache' =
                            _get_cached_result(query_cache, KeyOf(query, user_id),
                                               cache_now).cache
                      /\ inflight' = [inflight EXCEPT ![c] =
                            [pc |-> "awaiting", query |-> query, user_id |-> user_id,
                             limit |-> limit, min_score |-> min_score,
                             before |-> before]]
                      /\ UNCHANGED last_search
    /\ started' = started + 1
    /\ UNCHANGED <<chat_vars, cache_now, usage_vars, now, messages, cutoff_vars,
                   agent_vars>>

\* The vector search of a suspended call answers or fails, and the call runs
\* to its return or raise on the cache as it is by then.
SearchEnd(c) ==
    /\ inflight[c].pc = "awaiting"
    /\ \E store_up \in BOOLEAN :
         LET call == inflight[c]
         IN  \E got \in {get_relevant_documents(call.query, call.limit,
                            MetadataFilter(call.user_id), call.min_score, store_up)} :
                 /\ query_cache' =
                        IF got.raised THEN query_cache
                        ELSE _cache_result(query_cache, KeyOf(call.query, call.user_id),
                                           got.documents, cache_now)
                 /\ last_search' =
                        [calls |-> last_search.calls + 1, query |-> call.query,
                         user_id |-> call.user_id, limit |-> call.limit,
                         before |-> call.before, raised |-> got.raised,
                         value |-> IF got.raised THEN <<>>
                                   ELSE FormatDocuments(got.documents),
                         computed |-> TRUE, searched |-> TRUE,
                         evicted |-> (~got.raised) /\ Len(query_cache) > MaxCacheEntries]
    /\ inflight' = [inflight EXCEPT ![c] = NoCall]
    /\ UNCHANGED <<chat_vars, started, cache_now, usage_vars, now, messages, cutoff_vars,
                   agent_vars>>

ConcTick ==
    /\ cache_now < MaxCacheClock
    /\ cache_now' = cache_now + 1
    /\ UNCHANGED <<chat_vars, conc_vars, query_cache, last_search, usage_vars, now,
                   messages, cutoff_vars, agent_vars>>

ConcNext ==
    \/ \E c \in Callers : SearchBegin(c)
    \/ \E c \in Callers : SearchEnd(c)
    \/ ConcTick

SpecConcurrent == ConcInit /\ [][ConcNext]_vars

\* The result lists get_relevant_documents computes for the key of
\* (query, user_id), over the limits and thresholds a call can have.
ResultsFor(query, user_id) ==
    {get_relevant_documents(query, limit, MetadataFilter(user_id), min_score,
                            TRUE).documents : limit \in Limits, min_score \in MinScores}

\* C26: for any interleaving, at their awaits, of search_documents calls of
\* different conversations on one RAGService, every call that returns
\* returns a result computed for its own (query, filter) key, cut to its
\* limit, and every cache entry holds a value that was computed for the key
\* it is stored under, one entry per key.
C26_SharedCacheSafety ==
    /\ \A i \in 1..Len(query_cache) :
          /\ \E query \in Queries, user_id \in UserIds :
                /\ query_cache[i].key = KeyOf(query, user_id)
                /\ query_cache[i].result \in ResultsFor(query, user_id)
          /\ \A j \in 1..Len(query_cache) :
                query_cache[j].key = query_cache[i].key => j = i
    /\ (last_search.calls > 0 /\ ~last_search.raised) =>
          \E documents \in ResultsFor(last_search.query, last_search.user_id) :
              last_search.value = FormatDocuments(Take(documents, last_search.limit))

\* A call has returned its own documents and left them in the cache while
\* another call, which found the cache without its key, is still waiting
\* for its search, the entry of its key having been stored meanwhile.
C26_Witness ==
    /\ last_search.calls > 0
    /\ last_search.computed /\ last_search.searched /\ ~last_search.raised
    /\ last_search.value # <<>>
    /\ \E c \in Callers :
          /\ inflight[c].pc = "awaiting"
          /\ inflight[c].before = "absent"
          /\ CacheIndex(query_cache, KeyOf(inflight[c].query, inflight[c].user_id)) # {}

(***************************************************************************)
(* process_chat (app/services/orchestrator.py): requests are served one    *)
(* after the other; within one, the two coroutines given to asyncio.gather *)
(* advance from await to await in any order.                               *)
(***************************************************************************)
MaxChats == 2

ChatInit ==
    /\ chat_request = NoRequest
    /\ chat_pc = "idle"
    /\ moderation_task = NewModeration
    /\ intent_task = NewIntent
    /\ moderation_cache = EmptyDict
    /\ classification_cache = EmptyDict
    /\ chat_result = NoChatResult
    /\ chats_done = 0
    /\ messages = <<>>
    /\ now = 0
    /\ UsageIdle
    /\ CutoffIdle
    /\ AgentIdle
    /\ CacheIdle
    /\ ConcIdle

\* process_chat from its first line to the gather: _get_or_create_thread
\* raises ValueError when the thread is not found, and the handler rolls
\* back and re-raises.
ProcessChat ==
    /\ chat_pc \in {"idle", "raised"}
    /\ chats_done < MaxChats
    /\ \E message \in ChatMessages, thread_found \in BOOLEAN :
         /\ chat_request' = [message |-> message, thread_found |-> thread_found]
         /\ chat_pc' = IF thread_found THEN "gather" ELSE "raised"
         /\ chat_result' =
                IF thread_found THEN NoChatResult
                ELSE [NoChatResult EXCEPT !.kind = "raised", !.error = "ValueError"]
    /\ moderation_task' = NewModeration
    /\ intent_task' = NewIntent
    /\ chats_done' = chats_done + 1
    /\ UNCHANGED <<moderation_cache, classification_cache, conc_vars, cache_vars,
                   usage_vars, now, messages, cutoff_vars, agent_vars>>

\* The event loop runs the first coroutine of the gather to its first await.
ModerationRuns ==
    /\ chat_pc = "gather"
    /\ moderation_task.pc = "new"
    /\ moderation_task' = is_content_safe(chat_request.message, moderation_cache)
    /\ UNCHANGED <<chat_request, chat_pc, intent_task, moderation_cache,
                   classification_cache, chat_result, chats_done, conc_vars, cache_vars,
                   usage_vars, now, messages, cutoff_vars, agent_vars>>

\* The moderation API answers, or the call raises and the check fails open.
ModerationAnswers ==
    /\ chat_pc = "gather"
    /\ moderation_task.pc = "awaiting"
    /\ \E outcome \in ModerationOutcomes :
         /\ moderation_task' = [pc |-> "done", result |-> ModerationVerdict(outcome)]
         /\ moderation_cache' =
                IF outcome = "error" THEN moderation_cache
                ELSE SetKey(moderation_cache, chat_request.message,
                            ModerationVerdict(outcome))
    /\ UNCHANGED <<chat_request, chat_pc, intent_task, classification_cache, chat_result,
                   chats_done, conc_vars, cache_vars, usage_vars, now, messages,
                   cutoff_vars, agent_vars>>

\* The second coroutine of the gather runs to its first await, once the
\* first has been started.
IntentRuns ==
    /\ chat_pc = "gather"
    /\ intent_task.pc = "new"
    /\ moderation_task.pc # "new"
    /\ intent_task' = classify_intent(chat_request.message, classification_cache)
    /\ UNCHANGED <<chat_request, chat_pc, moderation_task, moderation_cache,
                   classification_cache, chat_result, chats_done, conc_vars, cache_vars,
                   usage_vars, now, messages, cutoff_vars, agent_vars>>

\* The classification chain answers, or raises and FAQ is the fallback.
IntentAnswers ==
    /\ chat_pc = "gather"
    /\ intent_task.pc = "awaiting"
    /\ \E outcome \in ClassifierOutcomes :
         /\ intent_task' = [pc |-> "done", result |-> IntentResult(outcome)]
         /\ classification_cache' =
                IF outcome = "error" THEN classification_cache
                ELSE SetKey(classification_cache, Strip(chat_request.message),
                            IntentResult(outcome))
    /\ UNCHANGED <<chat_request, chat_pc, moderation_task, moderation_cache, chat_result,
                   chats_done, conc_vars, cache_vars, usage_vars, now, messages,
                   cutoff_vars, agent_vars>>

\* Both coroutines are done and the gather returns (is_safe, intent_result).
\* The next statement calls self.session_manager.add_messages, a method
\* SessionManager (app/services/sessions.py) does not have: AttributeError,
\* caught by the handler, which rolls back and re-raises.
GatherReturns ==
    /\ chat_pc = "gather"
    /\ moderation_task.pc = "done"
    /\ intent_task.pc = "done"
    /\ chat_pc' = "raised"
    /\ chat_result' = [NoChatResult EXCEPT !.kind = "raised", !.error = "AttributeError"]
    /\ UNCHANGED <<chat_request, moderation_task, intent_task, moderation_cache,
                   classification_cache, chats_done, conc_vars, cache_vars, usage_vars,
                   now, messages, cutoff_vars, agent_vars>>

ChatNext ==
    \/ ProcessChat
    \/ ModerationRuns
    \/ ModerationAnswers
    \/ IntentRuns
    \/ IntentAnswers
    \/ GatherReturns

SpecChat == ChatInit /\ [][ChatNext]_vars

\* C25: in process_chat the moderation check and the intent classification
\* run side by side and both are done before the call goes on to save the
\* user message or to generate a response; and under every interleaving of
\* the two, when moderation reports the message unsafe, the call returns the
\* fixed refusal message (and no generated response).
C25_IntraTurnJoin ==
    /\ (chat_pc = "raised" /\ chat_request.thread_found) =>
          (moderation_task.pc = "done" /\ intent_task.pc = "done")
    /\ (/\ chat_pc \notin {"idle", "gather"}
        /\ chat_request.thread_found
        /\ moderation_task.pc = "done"
        /\ ~moderation_task.result) =>
          /\ chat_result.kind = "returned"
          /\ chat_result.content = RefusalMessage

====
